---- MODULE Spec2Model ----
(***************************************************************************)
(* Model of the Mandelbrot viewer in src/src/main.rs: Color, Palette,      *)
(* mandelbrot_calculate_point, the pixel loop of main and its event loop.  *)
(*                                                                         *)
(* Floating point.  f64 and f32 values are modelled as fixed-point numbers *)
(* with Scale = 2^16 units per 1.0: the integer v stands for v / Scale.    *)
(* Every arithmetic operation rounds its exact result to the nearest unit, *)
(* as IEEE arithmetic rounds to the nearest representable value.  Values   *)
(* that can be NaN or infinite (the results of log2) are records with a    *)
(* class field c.                                                          *)
(***************************************************************************)
EXTENDS Integers, Sequences, FiniteSets, TLC

VARIABLES
    pc,         \* position of the program
    size,       \* argument of Palette::generate
    palette,    \* main: palette
    set,        \* main: set, the colour buffer
    index,      \* main: index of the pixel loop
    x0, y0,     \* mandelbrot_calculate_point: arguments
    x, y,       \* mandelbrot_calculate_point: x, y
    iteration,  \* mandelbrot_calculate_point: iteration, while in the loop
    ret,        \* mandelbrot_calculate_point: the locals at its return
    frame,      \* pixels.get_frame(): the RGBA bytes
    surface,    \* size of the surface texture of pixels
    input,      \* the WinitInputHelper
    ca, cb,     \* Color::interpolate: self, other_color
    t1, t2,     \* Color::interpolate: two values of t
    r1, r2      \* Color::interpolate: the results for t1 and for t2

vars == <<pc, size, palette, set, index, x0, y0, x, y, iteration, ret,
          frame, surface, input, ca, cb, t1, t2, r1, r2>>

(***************************************************************************)
(* Program constants and bounds of the model                               *)
(***************************************************************************)
MAX_ITERATIONS == 32

\* WIDTH and HEIGHT are 1920 and 1080 in the source; the model's grid is small.
WIDTH == 4
HEIGHT == 4

\* Sample points of the evaluator: k / PointDiv for |k| <= MaxCoord * PointDiv.
MaxCoord == 2
PointDiv == 4

\* Palette::generate is applied to the sizes 1 .. MaxSize.
MaxSize == 60

\* Channels of the colours blended: 255 * k / ChanSteps; factors k / TSteps.
ChanSteps == 2
TSteps == 4

\* Window sizes of a resize event: 1 .. MaxResize times the grid.
MaxResize == 2

(***************************************************************************)
(* Fixed-point arithmetic                                                  *)
(***************************************************************************)
Radix == 2^8
Scale == Radix * Radix

Abs(a) == IF a < 0 THEN -a ELSE a
Sign(a) == IF a < 0 THEN -1 ELSE 1
Min(a, b) == IF a <= b THEN a ELSE b

\* Body(v), with v evaluated once.
Bind(v, Body(_)) == CHOOSE r \in {Body(w) : w \in {v}} : TRUE

\* The integer n as a float.
F(n) == n * Scale

\* The literal num / den.
Lit(num, den) == (num * Scale) \div den

\* a * b of non-negative a, b < 128.0, rounded to nearest, in word-sized steps.
MulAbs(a, b) ==
    LET ah == a \div Radix
        al == a % Radix
        bh == b \div Radix
        bl == b % Radix
    IN  ah * bh
        + ((ah * bl + al * bh) + ((al * bl + Scale \div 2) \div Radix)) \div Radix

FMul(a, b) == Sign(a) * Sign(b) * MulAbs(Abs(a), Abs(b))

\* a / b of non-negative a and 0 < b < 64.0, rounded to nearest.
DivAbs(a, b) ==
    LET q  == a \div b
        r  == a % b
        q1 == (r * Radix) \div b
        rr == (r * Radix) % b
        q2 == (2 * rr * Radix + b) \div (2 * b)
    IN  q * Scale + q1 * Radix + q2

FDiv(a, b) == Sign(a) * Sign(b) * DivAbs(Abs(a), Abs(b))

\* Floats that may be NaN or infinite.
Fin(v) == [c |-> "fin", v |-> v]
NaN == [c |-> "nan", v |-> 0]
PInf == [c |-> "pinf", v |-> 0]
NInf == [c |-> "ninf", v |-> 0]
NotComputed == [c |-> "none", v |-> 0]

Float == [c : {"fin", "nan", "pinf", "ninf", "none"}, v : Int]

IsFinite(f) == f.c = "fin"

\* The position of the leading bit of the integer m > 0.
TopBit[m \in Nat] == IF m < 2 THEN 0 ELSE 1 + TopBit[m \div 2]

\* The fraction bits of log2 of the mantissa m in [1.0, 2.0), by squaring: one
\* bit, of the weight `bit`, per squaring.
LogFrac[m \in Nat, bit \in Nat] ==
    IF bit = 0 THEN 0
    ELSE IF FMul(m, m) >= 2 * Scale
         THEN bit + LogFrac[FMul(m, m) \div 2, bit \div 2]
         ELSE LogFrac[FMul(m, m), bit \div 2]

\* m * 2^(16 - k): the mantissa of m, whose leading bit is bit k.
Mantissa[m \in Nat, k \in Nat] ==
    IF k >= 16 THEN m \div 2^(k - 16) ELSE m * 2^(16 - k)

\* log2 of the fixed-point m > 0.
Log2Fix[m \in Nat] ==
    (TopBit[m] - 16) * Scale + LogFrac[Mantissa[m, TopBit[m]], Scale \div 2]

\* f64::log2
FLog2[f \in Float] ==
    CASE f.c = "fin" -> IF f.v < 0 THEN NaN
                        ELSE IF f.v = 0 THEN NInf
                        ELSE Fin(Log2Fix[f.v])
      [] f.c = "pinf" -> PInf
      [] OTHER -> NaN

\* f / d for a finite d > 0.
FDivBy[f \in Float, d \in Int] ==
    IF f.c = "fin" THEN Fin(FDiv(f.v, d)) ELSE f

\* a - f for a finite a.
FSubFrom[a \in Int, f \in Float] ==
    CASE f.c = "fin" -> Fin(a - f.v)
      [] f.c = "pinf" -> NInf
      [] f.c = "ninf" -> PInf
      [] OTHER -> NaN

\* f >= m for a finite m.
FGe[f \in Float, m \in Int] ==
    CASE f.c = "fin" -> f.v >= m
      [] f.c = "pinf" -> TRUE
      [] OTHER -> FALSE

\* f64::fract: f - f.trunc(), with the sign of f.
FFract[f \in Float] ==
    IF f.c = "fin" THEN Fin(Sign(f.v) * (Abs(f.v) % Scale)) ELSE NaN

\* `v as u64` of a finite v: truncates, and saturates at 0.
AsU64(v) == IF v < 0 THEN 0 ELSE v \div Scale

(***************************************************************************)
(* Color                                                                   *)
(***************************************************************************)
\* Color::new
New(r, g, b) == [red |-> r, blue |-> b, green |-> g]

\* as_slice with the channels in the order the struct declares its fields.
as_slice_FieldOrder(self) == <<self.red, self.blue, self.green, 255>>

\* Color::as_slice
as_slice(self) == <<self.red, self.green, self.blue, 255>>

\* The float v as an 8-bit channel: rounded to the nearest integer, half away
\* from zero, and clamped to 0 .. 255.
RoundToU8(v) ==
    IF v <= 0 THEN 0 ELSE Min((2 * v + Scale) \div (2 * Scale), 255)

\* interpolation::lerp on two u8 channels with the f32 factor t: the channel
\* round(a + (b - a) * t).  A cast of NaN to u8 is 0.
lerp(a, b, t) ==
    IF t.c # "fin" THEN 0 ELSE RoundToU8(F(a) + (b - a) * t.v)

\* interpolate with self and other_color exchanged.
interpolate_Exchanged(self, other_color, t) ==
    [red   |-> lerp(other_color.red, self.red, t),
     green |-> lerp(other_color.green, self.green, t),
     blue  |-> lerp(other_color.blue, self.blue, t)]

\* Color::interpolate
interpolate(self, other_color, t) ==
    [red   |-> lerp(self.red, other_color.red, t),
     green |-> lerp(self.green, other_color.green, t),
     blue  |-> lerp(self.blue, other_color.blue, t)]

(***************************************************************************)
(* Palette                                                                 *)
(***************************************************************************)
\* GradientColor with the arguments of Color::new in the order of the fields.
GradientColor_FieldOrder(i, n) ==
    LET t == Fin(FDiv(F(i), F(n)))
    IN  New(lerp(0, 255, t), lerp(85, 255, t), lerp(0, 255, t))

\* The Color pushed for `index` by the loop of Palette::generate.
GradientColor(i, n) ==
    LET t == Fin(FDiv(F(i), F(n)))
    IN  New(lerp(0, 255, t), lerp(0, 255, t), lerp(85, 255, t))

\* Palette::generate
generate(n) ==
    [colors    |-> [i \in 1..n |-> GradientColor(i - 1, n)],
     max_color |-> New(0, 0, 0)]

\* The bounds check of Vec indexing in Palette::get_color.
InRange(p, i) == 0 <= i /\ i < Len(p.colors)

\* Palette::get_color, for an index InRange
get_color(p, i) == p.colors[i + 1]

(***************************************************************************)
(* mandelbrot_calculate_point                                              *)
(***************************************************************************)
MaxIterF == F(MAX_ITERATIONS)

\* x*x + y*y
Mag(xx, yy) == FMul(xx, xx) + FMul(yy, yy)

\* The test of the while loop without the budget of iterations.
LoopCond_NoBudget(xx, yy, it) == AsU64(Mag(xx, yy)) <= 34

\* The test of the while loop with the bound 0 on the truncated magnitude.
LoopCond_BoundZero(xx, yy, it) == AsU64(Mag(xx, yy)) <= 0 /\ it < MaxIterF

\* The test of the while loop.  In Rust `2^32` is 2 XOR 32, that is 34.
LoopCond(xx, yy, it) == AsU64(Mag(xx, yy)) <= 34 /\ it < MaxIterF

\* The body of the while loop: the new x, the new y.
BodyX(xx, yy, cx) == FMul(xx, xx) - FMul(yy, yy) + cx
BodyY(xx, yy, cy) == FMul(2 * xx, yy) + cy

\* log_zn, from the magnitude x*x + y*y.
LogZn(mag) == FDivBy[FLog2[Fin(mag)], F(2)]

\* nu; log2(2.0) is computed as the other logarithms are.
Nu(log_zn) ==
    LET l2 == Log2Fix[F(2)]
    IN  FDivBy[FLog2[FDivBy[log_zn, l2]], l2]

\* Smoothed with nu added.
Smoothed_PlusNu(it, nu) ==
    IF nu.c = "fin" THEN Fin(it + F(1) + nu.v) ELSE nu

\* The value of iteration after the smoothing step.
Smoothed(it, nu) == FSubFrom[it + F(1), nu]

\* `(iteration as usize).min(MAX_ITERATIONS as usize - 1)`: the cast truncates,
\* saturates and sends NaN to 0.
PrimaryIndex(it) ==
    CASE it.c = "fin"  -> Min(AsU64(it.v), MAX_ITERATIONS - 1)
      [] it.c = "pinf" -> MAX_ITERATIONS - 1
      [] OTHER -> 0

\* SecondaryIndex without the clamp.
SecondaryIndex_Unclamped(it) ==
    IF it.c = "fin" THEN AsU64(it.v) + 1 ELSE 1

\* `((iteration as usize) + 1).min(MAX_ITERATIONS as usize - 1)`.  usize::MAX + 1
\* overflows, which panics with overflow checks on: -1, never in range.
SecondaryIndex(it) ==
    CASE it.c = "fin"  -> Min(AsU64(it.v) + 1, MAX_ITERATIONS - 1)
      [] it.c = "pinf" -> -1
      [] OTHER -> Min(1, MAX_ITERATIONS - 1)

\* IsInterior with > for >=.
IsInterior_Strict(it) == it.c = "pinf" \/ (it.c = "fin" /\ it.v > MaxIterF)

\* Whether c1 is palette.max_color.
IsInterior(it) == FGe[it, MaxIterF]

\* The factor of the blend: `iteration.fract() as f32`.
BlendFactor(it) == FFract[it]

\* The smoothing step, taken when the loop left iteration < MAX_ITERATIONS.
Smoothing(xx, yy, it) ==
    IF it < MaxIterF
    THEN Bind(LogZn(Mag(xx, yy)), LAMBDA lz :
         Bind(Nu(lz), LAMBDA nu :
              [smoothed |-> TRUE, log_zn |-> lz, nu |-> nu,
               iteration |-> Smoothed(it, nu)]))
    ELSE [smoothed |-> FALSE, log_zn |-> NotComputed, nu |-> NotComputed,
          iteration |-> Fin(it)]

\* The choice of c1, the two indices and the factor of the blend.
Lookups(it) ==
    [interior |-> IsInterior(it), i1 |-> PrimaryIndex(it),
     i2 |-> SecondaryIndex(it), t |-> BlendFactor(it)]

\* The lookups of c1 and c2 and their blend; a lookup out of range panics.
Blend(k, p) ==
    IF (k.interior \/ InRange(p, k.i1)) /\ InRange(p, k.i2)
    THEN [panicked |-> FALSE,
          color |-> interpolate(IF k.interior THEN p.max_color
                                ELSE get_color(p, k.i1),
                                get_color(p, k.i2), k.t)]
    ELSE [panicked |-> TRUE, color |-> New(0, 0, 0)]

\* The locals of mandelbrot_calculate_point from the exit of its loop, with x, y
\* and iteration as the loop left them, to its return.
Locals(xx, yy, it, p) ==
    Bind(Smoothing(xx, yy, it), LAMBDA s :
    Bind(Lookups(s.iteration), LAMBDA k :
    Bind(Blend(k, p), LAMBDA c :
         [count |-> it, smoothed |-> s.smoothed, mag |-> Mag(xx, yy),
          log_zn |-> s.log_zn, nu |-> s.nu, iteration |-> s.iteration,
          interior |-> k.interior, i1 |-> k.i1, i2 |-> k.i2, t |-> k.t,
          panicked |-> c.panicked, color |-> c.color])))

\* The while loop from the state (xx, yy, it): the state at its exit.
RunLoop(xx, yy, it, cx, cy) ==
    LET run[s \in Int \X Int \X Int] ==
            IF LoopCond(s[1], s[2], s[3])
            THEN run[<<BodyX(s[1], s[2], cx), BodyY(s[1], s[2], cy), s[3] + F(1)>>]
            ELSE s
    IN  run[<<xx, yy, it>>]

\* mandelbrot_calculate_point as a function of its arguments.
mandelbrot_calculate_point(cx, cy, p) ==
    LET e == RunLoop(0, 0, 0, cx, cy)
    IN  Locals(e[1], e[2], e[3], p).color

NoRet == [count |-> 0, smoothed |-> FALSE, mag |-> 0, log_zn |-> NotComputed,
          nu |-> NotComputed, iteration |-> NotComputed, interior |-> FALSE,
          i1 |-> 0, i2 |-> 0, t |-> NotComputed, panicked |-> FALSE,
          color |-> New(0, 0, 0)]

\* One execution of the loop body.
LoopBody ==
    /\ pc = "loop"
    /\ LoopCond(x, y, iteration)
    /\ x' = BodyX(x, y, x0)
    /\ y' = BodyY(x, y, y0)
    /\ iteration' = iteration + F(1)
    /\ UNCHANGED <<pc, size, palette, set, index, x0, y0, ret, frame, surface,
                   input, ca, cb, t1, t2, r1, r2>>

\* The exit of the loop, the smoothing step, the lookups and the blend.
LoopExit ==
    /\ pc = "loop"
    /\ ~LoopCond(x, y, iteration)
    /\ ret' = Locals(x, y, iteration, palette)
    /\ pc' = IF ret'.panicked THEN "panic" ELSE "ret"
    /\ UNCHANGED <<size, palette, set, index, x0, y0, x, y, iteration, frame,
                   surface, input, ca, cb, t1, t2, r1, r2>>

(***************************************************************************)
(* main: the palette, the pixel loop, the window                           *)
(***************************************************************************)
NoPalette == [colors |-> <<>>, max_color |-> New(0, 0, 0)]
NoInput == [escape |-> FALSE, quit |-> FALSE, window_resized |-> <<>>]

\* x0 and y0 of the pixel in column px and row py.
PixelX0(px) == FDiv(FMul(F(1) - (-Lit(5, 2)), F(px)), F(WIDTH)) + (-Lit(5, 2))
PixelY0(py) == FDiv(FMul(F(1) - (-F(1)), F(py)), F(HEIGHT)) + (-F(1))

\* Palette::generate(MAX_ITERATIONS as usize), and the empty set.
GeneratePalette ==
    /\ pc = "start"
    /\ palette' = generate(size)
    /\ set' = <<>>
    /\ index' = 0
    /\ pc' = "grid"
    /\ UNCHANGED <<size, x0, y0, x, y, iteration, ret, frame, surface, input,
                   ca, cb, t1, t2, r1, r2>>

\* The pixel loop up to the call of mandelbrot_calculate_point and its entry.
NextPixel ==
    /\ pc = "grid"
    /\ index < WIDTH * HEIGHT
    /\ x0' = PixelX0(index % WIDTH)
    /\ y0' = PixelY0(index \div WIDTH)
    /\ x' = 0
    /\ y' = 0
    /\ iteration' = 0
    /\ pc' = "loop"
    /\ UNCHANGED <<size, palette, set, index, ret, frame, surface, input,
                   ca, cb, t1, t2, r1, r2>>

\* set.push of the returned Color.
PushPixel ==
    /\ pc = "ret"
    /\ set' = Append(set, ret.color)
    /\ index' = index + 1
    /\ pc' = "grid"
    /\ UNCHANGED <<size, palette, x0, y0, x, y, iteration, ret, frame, surface,
                   input, ca, cb, t1, t2, r1, r2>>

\* The event loop, the input helper, the window and the pixels are created; the
\* frame of a new Pixels is WIDTH * HEIGHT zeroed RGBA quadruples.
OpenWindow ==
    /\ pc = "grid"
    /\ index = WIDTH * HEIGHT
    /\ frame' = [i \in 1..(WIDTH * HEIGHT * 4) |-> 0]
    /\ surface' = <<WIDTH, HEIGHT>>
    /\ input' = NoInput
    /\ pc' = "events"
    /\ UNCHANGED <<size, palette, set, index, x0, y0, x, y, iteration, ret,
                   ca, cb, t1, t2, r1, r2>>

(***************************************************************************)
(* main: the closure of event_loop.run, one action per kind of event       *)
(***************************************************************************)
\* The frame after `pixel.copy_from_slice(&set[i].as_slice())` on every chunk.
DrawFrame(fr, s) ==
    [i \in 1..Len(fr) |-> as_slice(s[((i - 1) \div 4) + 1])[((i - 1) % 4) + 1]]

\* The sizes a resize of the window can report.
WindowSizes == {<<WIDTH * k, HEIGHT * k>> : k \in 1..MaxResize}

\* Event::RedrawRequested: the frame is written and rendered; a render error
\* panics.  input.update is false for this event.
RedrawRequested ==
    /\ pc = "events"
    /\ frame' = DrawFrame(frame, set)
    /\ \E rendered \in BOOLEAN : pc' = IF rendered THEN "events" ELSE "render_failed"
    /\ UNCHANGED <<size, palette, set, index, x0, y0, x, y, iteration, ret,
                   surface, input, ca, cb, t1, t2, r1, r2>>

\* Event::NewEvents: input.update starts a new step and answers false.
NewEvents ==
    /\ pc = "events"
    /\ input' = NoInput
    /\ UNCHANGED <<pc, size, palette, set, index, x0, y0, x, y, iteration, ret,
                   frame, surface, ca, cb, t1, t2, r1, r2>>

\* Event::WindowEvent, Escape pressed: input.update records it, answers false.
KeyPressed ==
    /\ pc = "events"
    /\ input' = [input EXCEPT !.escape = TRUE]
    /\ UNCHANGED <<pc, size, palette, set, index, x0, y0, x, y, iteration, ret,
                   frame, surface, ca, cb, t1, t2, r1, r2>>

\* Event::WindowEvent, CloseRequested: input.update records it, answers false.
QuitRequested ==
    /\ pc = "events"
    /\ input' = [input EXCEPT !.quit = TRUE]
    /\ UNCHANGED <<pc, size, palette, set, index, x0, y0, x, y, iteration, ret,
                   frame, surface, ca, cb, t1, t2, r1, r2>>

\* Event::WindowEvent, Resized: input.update records it, answers false.
WindowResized ==
    /\ pc = "events"
    /\ \E sz \in WindowSizes : input' = [input EXCEPT !.window_resized = sz]
    /\ UNCHANGED <<pc, size, palette, set, index, x0, y0, x, y, iteration, ret,
                   frame, surface, ca, cb, t1, t2, r1, r2>>

\* MainEventsCleared with a resize that resizes the buffer of pixels, which then
\* is zeroed, for the surface.
MainEventsCleared_ResizeBuffer ==
    /\ pc = "events"
    /\ IF input.escape \/ input.quit
       THEN pc' = "exit" /\ UNCHANGED <<surface, frame>>
       ELSE /\ pc' = "events"
            /\ UNCHANGED surface
            /\ frame' = IF input.window_resized # <<>>
                        THEN [i \in 1..Len(frame) |-> 0] ELSE frame
    /\ UNCHANGED <<size, palette, set, index, x0, y0, x, y, iteration, ret,
                   input, ca, cb, t1, t2, r1, r2>>

\* Event::MainEventsCleared: input.update answers true; Escape or a quit request
\* ends the event loop, a resize resizes the surface of pixels.
MainEventsCleared ==
    /\ pc = "events"
    /\ IF input.escape \/ input.quit
       THEN pc' = "exit" /\ UNCHANGED surface
       ELSE /\ pc' = "events"
            /\ surface' = IF input.window_resized # <<>>
                          THEN input.window_resized ELSE surface
    /\ UNCHANGED <<size, palette, set, index, x0, y0, x, y, iteration, ret,
                   frame, input, ca, cb, t1, t2, r1, r2>>

(***************************************************************************)
(* The program                                                             *)
(***************************************************************************)
Init ==
    /\ pc = "start"
    /\ size = MAX_ITERATIONS
    /\ palette = NoPalette
    /\ set = <<>>
    /\ index = 0
    /\ x0 = 0 /\ y0 = 0 /\ x = 0 /\ y = 0 /\ iteration = 0
    /\ ret = NoRet
    /\ frame = <<>>
    /\ surface = <<0, 0>>
    /\ input = NoInput
    /\ ca = New(0, 0, 0) /\ cb = New(0, 0, 0)
    /\ t1 = 0 /\ t2 = 0
    /\ r1 = New(0, 0, 0) /\ r2 = New(0, 0, 0)

Next ==
    \/ GeneratePalette
    \/ NextPixel
    \/ LoopBody
    \/ LoopExit
    \/ PushPixel
    \/ OpenWindow
    \/ RedrawRequested
    \/ NewEvents
    \/ KeyPressed
    \/ QuitRequested
    \/ WindowResized
    \/ MainEventsCleared

Spec == Init /\ [][Next]_vars

(***************************************************************************)
(* mandelbrot_calculate_point on sample points                             *)
(***************************************************************************)
SamplePoints ==
    {Lit(k, PointDiv) : k \in (-(MaxCoord * PointDiv))..(MaxCoord * PointDiv)}

InitPoint ==
    /\ pc = "loop"
    /\ size = MAX_ITERATIONS
    /\ palette = generate(MAX_ITERATIONS)
    /\ set = <<>>
    /\ index = 0
    /\ x0 \in SamplePoints /\ y0 \in SamplePoints
    /\ x = 0 /\ y = 0 /\ iteration = 0
    /\ ret = NoRet
    /\ frame = <<>>
    /\ surface = <<0, 0>>
    /\ input = NoInput
    /\ ca = New(0, 0, 0) /\ cb = New(0, 0, 0)
    /\ t1 = 0 /\ t2 = 0
    /\ r1 = New(0, 0, 0) /\ r2 = New(0, 0, 0)

NextPoint == LoopBody \/ LoopExit

SpecPoint == InitPoint /\ [][NextPoint]_vars

\* The function runs to its return: no step of it waits for anything.
SpecPointFair == SpecPoint /\ WF_vars(NextPoint)

(***************************************************************************)
(* Palette::generate on the sizes 1 .. MaxSize                             *)
(***************************************************************************)
InitPalette ==
    /\ pc = "start"
    /\ size \in 1..MaxSize
    /\ palette = NoPalette
    /\ set = <<>>
    /\ index = 0
    /\ x0 = 0 /\ y0 = 0 /\ x = 0 /\ y = 0 /\ iteration = 0
    /\ ret = NoRet
    /\ frame = <<>>
    /\ surface = <<0, 0>>
    /\ input = NoInput
    /\ ca = New(0, 0, 0) /\ cb = New(0, 0, 0)
    /\ t1 = 0 /\ t2 = 0
    /\ r1 = New(0, 0, 0) /\ r2 = New(0, 0, 0)

NextPalette == GeneratePalette

SpecPalette == InitPalette /\ [][NextPalette]_vars

(***************************************************************************)
(* Color::interpolate on sample colours and factors                        *)
(***************************************************************************)
Channels == {(255 * k) \div ChanSteps : k \in 0..ChanSteps}
Colors == {New(r, g, b) : r \in Channels, g \in Channels, b \in Channels}
Factors == {Lit(k, TSteps) : k \in 0..TSteps}

\* self.interpolate(other_color, t), for t1 and for t2.
Interpolate ==
    /\ pc = "blend"
    /\ r1' = interpolate(ca, cb, Fin(t1))
    /\ r2' = interpolate(ca, cb, Fin(t2))
    /\ pc' = "blended"
    /\ UNCHANGED <<size, palette, set, index, x0, y0, x, y, iteration, ret,
                   frame, surface, input, ca, cb, t1, t2>>

InitColor ==
    /\ pc = "blend"
    /\ size = MAX_ITERATIONS
    /\ palette = NoPalette
    /\ set = <<>>
    /\ index = 0
    /\ x0 = 0 /\ y0 = 0 /\ x = 0 /\ y = 0 /\ iteration = 0
    /\ ret = NoRet
    /\ frame = <<>>
    /\ surface = <<0, 0>>
    /\ input = NoInput
    /\ ca \in Colors /\ cb \in Colors
    /\ t1 \in Factors /\ t2 \in Factors /\ t1 <= t2
    /\ r1 = New(0, 0, 0) /\ r2 = New(0, 0, 0)

NextColor == Interpolate

SpecColor == InitColor /\ [][NextColor]_vars

(***************************************************************************)
(* Properties                                                              *)
(***************************************************************************)
Returned == pc \in {"ret", "panic"}
InEventLoop == pc \in {"events", "exit"}
Drawn == \E i \in 1..Len(frame) : frame[i] # 0
ChannelNames == {"red", "green", "blue"}

\* C1: a point whose loop runs all MAX_ITERATIONS iterations (the origin among
\* them) is not smoothed, and the colour returned is the palette's interior
\* colour (0, 0, 0) exactly.
C1_InteriorColor ==
    /\ (Returned /\ x0 = 0 /\ y0 = 0) => ret.count = MaxIterF
    /\ (Returned /\ ret.count = MaxIterF) =>
          /\ pc = "ret"
          /\ ~ret.smoothed
          /\ ret.color = palette.max_color
          /\ ret.color = New(0, 0, 0)

C1_Witness ==
    pc = "ret" /\ x0 = 0 /\ y0 = 0 /\ ret.count = MaxIterF /\ ret.interior

\* C2: for every pixel of the grid, the indices handed to Palette::get_color
\* (the primary one unless the interior colour is taken, and the secondary one)
\* lie in 0 .. length - 1, and the length is MAX_ITERATIONS.
C2_IndicesInRange ==
    Returned =>
        /\ Len(palette.colors) = MAX_ITERATIONS
        /\ pc = "ret"
        /\ ~ret.interior => (0 <= ret.i1 /\ ret.i1 < Len(palette.colors))
        /\ 0 <= ret.i2 /\ ret.i2 < Len(palette.colors)

C2_Witness ==
    /\ pc = "ret"
    /\ ret.count = MaxIterF
    /\ ret.i2 = MAX_ITERATIONS - 1
    /\ index > 0

\* C3: at the head of the loop, the loop continues exactly when the squared
\* magnitude is at most 4.0 and iteration < MAX_ITERATIONS.
C3_EscapeBoundFour ==
    pc = "loop" =>
        (LoopCond(x, y, iteration) <=>
            (Mag(x, y) <= F(4) /\ iteration < MaxIterF))

\* C4: the counter starts at 0 and grows by exactly 1 per execution of the body,
\* never beyond MAX_ITERATIONS; the function returns, with a Color and without a
\* panic.
C4_Total ==
    /\ [](pc = "loop" => iteration \in {F(k) : k \in 0..MAX_ITERATIONS})
    /\ [][(pc = "loop" /\ pc' = "loop") => iteration' = iteration + F(1)]_vars
    /\ [](pc # "panic")
    /\ [](pc = "ret" =>
            /\ ret.count <= MaxIterF
            /\ \A ch \in ChannelNames : ret.color[ch] \in 0..255)
    /\ <>(pc = "ret")

C4_Witness ==
    pc = "ret" /\ ret.count = MaxIterF /\ iteration = MaxIterF /\ ~ret.panicked

\* C5: once drawn, the frame is WIDTH * HEIGHT RGBA quadruples in row-major order:
\* quadruple i is (red, green, blue, 0xFF) of the colour of the pixel in column
\* i mod WIDTH and row i div WIDTH.
C5_FrameLayout ==
    (pc \in {"events", "exit", "render_failed"} /\ Drawn) =>
        /\ Len(frame) = WIDTH * HEIGHT * 4
        /\ \A i \in 0..(WIDTH * HEIGHT - 1) :
              LET c == mandelbrot_calculate_point(
                           PixelX0(i % WIDTH), PixelY0(i \div WIDTH), palette)
              IN  /\ frame[4 * i + 1] = c.red
                  /\ frame[4 * i + 2] = c.green
                  /\ frame[4 * i + 3] = c.blue
                  /\ frame[4 * i + 4] = 255

C5_Witness == pc = "events" /\ Drawn /\ Len(set) = WIDTH * HEIGHT

\* C6: for (2.0, 2.0) the loop exits after 1 or 2 iterations, before
\* MAX_ITERATIONS; the point is smoothed, and the smoothed value is finite and
\* lies between 0 and the number of iterations done.
C6_FarOutside ==
    (Returned /\ x0 = F(2) /\ y0 = F(2)) =>
        /\ pc = "ret"
        /\ ret.count \in {F(1), F(2)}
        /\ ret.count < MaxIterF
        /\ ret.smoothed
        /\ IsFinite(ret.iteration)
        /\ 0 <= ret.iteration.v /\ ret.iteration.v <= ret.count

C6_Witness == pc = "ret" /\ x0 = F(2) /\ y0 = F(2) /\ ret.smoothed

\* C7: whenever the smoothing step runs, both logarithms get a strictly positive
\* argument, and neither the smoothed iteration nor the blend factor is NaN or
\* infinite.
C7_LogArgsPositive ==
    (Returned /\ ret.smoothed) =>
        /\ ret.mag > 0
        /\ IsFinite(ret.log_zn) /\ ret.log_zn.v > 0
        /\ IsFinite(ret.nu)
        /\ IsFinite(ret.iteration)
        /\ IsFinite(ret.t)

C7_Witness ==
    pc = "ret" /\ ret.smoothed /\ ret.count > F(2) /\ IsFinite(ret.nu)

\* C8: generate(size) has exactly size entries and the interior colour (0, 0, 0);
\* entry 0 is (0x00, 0x00, 0x55), red equals green in every entry, and no channel
\* decreases as the index grows, nor exceeds 0xFF.
C8_Gradient ==
    pc = "grid" =>
        /\ Len(palette.colors) = size
        /\ palette.max_color = New(0, 0, 0)
        /\ palette.colors[1] = New(0, 0, 85)
        /\ \A i \in 1..size :
              /\ palette.colors[i].red = palette.colors[i].green
              /\ \A ch \in ChannelNames : palette.colors[i][ch] \in 0..255
        /\ \A i \in 1..size : \A j \in i..size : \A ch \in ChannelNames :
              palette.colors[i][ch] <= palette.colors[j][ch]

C8_Witness ==
    /\ pc = "grid"
    /\ size = MAX_ITERATIONS
    /\ Len(palette.colors) = size
    /\ palette.colors[size].red > palette.colors[1].red

\* C9: a.interpolate(b, 0.0) is a, a.interpolate(b, 1.0) is b, and for
\* 0 <= t1 <= t2 <= 1 every channel moves from a's towards b's without turning
\* back and without leaving the interval between them.
C9_LinearBlend ==
    pc = "blended" =>
        /\ t1 = 0 => r1 = ca
        /\ t2 = F(1) => r2 = cb
        /\ \A ch \in ChannelNames :
              IF ca[ch] <= cb[ch]
              THEN ca[ch] <= r1[ch] /\ r1[ch] <= r2[ch] /\ r2[ch] <= cb[ch]
              ELSE ca[ch] >= r1[ch] /\ r1[ch] >= r2[ch] /\ r2[ch] >= cb[ch]

C9_Witness ==
    /\ pc = "blended"
    /\ t1 = 0 /\ t2 = F(1)
    /\ r1 = ca /\ r2 = cb
    /\ ca.red < cb.red /\ ca.green > cb.green /\ ca.blue # ca.green

\* C10: the palette and the colour buffer are complete when the event loop
\* starts; no event changes either of them, and once a redraw has written the
\* frame, no later event changes the frame.
C10_BuiltOnce ==
    /\ [](InEventLoop =>
            /\ Len(palette.colors) = MAX_ITERATIONS
            /\ Len(set) = WIDTH * HEIGHT)
    /\ [][pc = "events" =>
            /\ palette' = palette
            /\ set' = set
            /\ Drawn => frame' = frame
            /\ Drawn' => frame' = DrawFrame(frame, set)]_vars

C10_Witness ==
    /\ pc = "events"
    /\ Drawn
    /\ surface # <<WIDTH, HEIGHT>>
    /\ input.window_resized # <<>>

====
